---- MODULE Spec2Model ----
(***************************************************************************)
(* Model of download-places-of-worship-in-paris.py: the download loop over *)
(* the two areas (Paris, UniteUrbaine), the conversion of an Overpass      *)
(* response into a GeoDataFrame, the elimination of duplicate features by  *)
(* WKT text, and the writing of one GeoPackage layer per area.             *)
(*                                                                         *)
(* Library semantics the model relies on:                                  *)
(*   - dict | dict: the right operand wins on a shared key;                *)
(*   - DataFrame.groupby(key) sorts the groups by key and drops the rows   *)
(*     whose key is NA (sort=True, dropna=True are the defaults);          *)
(*   - GroupBy.first() takes, column by column, the first non-NA entry of  *)
(*     the group (NA when the group has none);                             *)
(*   - data.geometry.wkt is read as the element-wise WKT text of the       *)
(*     geometry column, NA for a missing geometry.                         *)
(***************************************************************************)
EXTENDS Integers, Sequences, FiniteSets, TLC

VARIABLES pc, area, calls, response, data, cache, dataset, printed, diagnostics, err

vars == <<pc, area, calls, response, data, cache, dataset, printed, diagnostics, err>>

(***************************************************************************)
(* Bounds of the model.                                                    *)
(***************************************************************************)
\* longest elements sequence of a response whose conversion is examined
MaxElems == 2
\* longest elements sequence of a response in a run over both areas
MaxRunElems == 1

(***************************************************************************)
(* Values.                                                                 *)
(***************************************************************************)
\* Python's None in a tag column
None == "None"
\* a missing geometry (None in the geometry column)
NoneGeometry == <<>>
\* a missing WKT text (NA in the wkt column)
NoneWkt == <<>>

\* shapely.geometry.Point(lon, lat)
Point(lon, lat) == <<lon, lat>>

\* coordinates the modelled responses use: they differ in lon alone, in lat
\* alone and in both, and "10" sorts before "9" as text
Coords ==
  {[lon |-> 9, lat |-> 48], [lon |-> 10, lat |-> 48], [lon |-> 9, lat |-> 49]}

TagKeys == {"name", "geometry"}
TagValues == {"A", "B"}
\* the tags of an element: a mapping with unique keys (the modelled responses
\* use at most one key per element)
TagMaps == UNION {[K -> TagValues] : K \in {{}} \cup {{k} : k \in TagKeys}}

\* a node carries lon/lat, a way or relation carries a center ("out center"),
\* an element may carry both or neither
ElementsWith(tagmaps) ==
       {[tags |-> t] : t \in tagmaps}
  \cup {[lon |-> c.lon, lat |-> c.lat, tags |-> t] : c \in Coords, t \in tagmaps}
  \cup {[center |-> c, tags |-> t] : c \in Coords, t \in tagmaps}
  \cup {[lon |-> p[1].lon, lat |-> p[1].lat, center |-> p[2], tags |-> t] :
          p \in {q \in Coords \X Coords : q[1] # q[2]}, t \in tagmaps}

Elements == ElementsWith(TagMaps)

SeqsUpTo(S, n) == UNION {[1..k -> S] : k \in 0..n}

\* response bodies: text that is no JSON, JSON without "elements", and the
\* expected JSON structure
Undecodable == [html |-> "error"]
Malformed == [json |-> [remark |-> "error"]]
WellFormed(elems, n) == {[json |-> [elements |-> s]] : s \in SeqsUpTo(elems, n)}

Bodies == {Undecodable, Malformed} \cup WellFormed(Elements, MaxElems)
RunBodies == {Undecodable, Malformed} \cup WellFormed(ElementsWith({<<>>}), MaxRunElems)

NoResponse == [closed |-> TRUE]
NoData == [columns |-> <<>>, geometry |-> <<>>]
NoError == [type |-> "None", cause |-> "None"]

AreaNames == <<"Paris", "UniteUrbaine">>

(***************************************************************************)
(* overpass_element_to_point                                               *)
(***************************************************************************)
\* mutant: the center is tried before the direct coordinates
overpass_element_to_point_center_first(element) ==
  IF "center" \in DOMAIN element
     /\ "lon" \in DOMAIN element.center
     /\ "lat" \in DOMAIN element.center
  THEN Point(element.center.lon, element.center.lat)
  ELSE IF "lon" \in DOMAIN element /\ "lat" \in DOMAIN element
       THEN Point(element.lon, element.lat)
       ELSE NoneGeometry

overpass_element_to_point(element) ==
  IF "lon" \in DOMAIN element /\ "lat" \in DOMAIN element
  THEN Point(element.lon, element.lat)
  ELSE IF "center" \in DOMAIN element
          /\ "lon" \in DOMAIN element.center
          /\ "lat" \in DOMAIN element.center
       THEN Point(element.center.lon, element.center.lat)
       ELSE NoneGeometry

\* the elements print(element) reports, in order
PrintedElements(elements) ==
  SelectSeq(elements, LAMBDA e : overpass_element_to_point(e) = NoneGeometry)

(***************************************************************************)
(* overpass_json_points_to_geopandas                                       *)
(***************************************************************************)
\* overpass_json["elements"] and element["tags"] raise KeyError when absent
Convertible(overpass_json) ==
  /\ "elements" \in DOMAIN overpass_json
  /\ \A i \in DOMAIN overpass_json.elements :
        "tags" \in DOMAIN overpass_json.elements[i]

\* The frame is built from {column: [...]} | {"geometry": [...]}: a tag
\* column named "geometry" is replaced by the geometry column.
overpass_json_points_to_geopandas(overpass_json) ==
  LET elements == overpass_json.elements
      columns == UNION {DOMAIN elements[i].tags : i \in DOMAIN elements}
  IN  [columns |->
         [column \in columns \ {"geometry"} |->
            [i \in DOMAIN elements |->
               IF column \in DOMAIN elements[i].tags
               THEN elements[i].tags[column]
               ELSE None]],
       geometry |->
         [i \in DOMAIN elements |-> overpass_element_to_point(elements[i])]]

(***************************************************************************)
(* eliminate duplicate features                                            *)
(***************************************************************************)
RECURSIVE Digits(_)
Digits(n) == IF n < 10 THEN <<48 + n>> ELSE Digits(n \div 10) \o <<48 + (n % 10)>>

\* the WKT text of a geometry as a sequence of character codes:
\* "POINT (" lon " " lat ")"
Wkt(geometry) ==
  IF geometry = NoneGeometry
  THEN NoneWkt
  ELSE <<80, 79, 73, 78, 84, 32, 40>> \o Digits(geometry[1]) \o <<32>>
         \o Digits(geometry[2]) \o <<41>>

\* string order: by character code, a proper prefix first
LexLess(a, b) ==
  \E i \in 1..Len(b) :
     /\ \A j \in 1..(i - 1) : j <= Len(a) /\ a[j] = b[j]
     /\ (i > Len(a) \/ a[i] < b[i])

RECURSIVE SortedKeys(_)
SortedKeys(S) ==
  IF S = {} THEN <<>>
  ELSE LET m == CHOOSE x \in S : \A y \in S \ {x} : LexLess(x, y)
       IN  <<m>> \o SortedKeys(S \ {m})

\* the rows at which a non-NA key appears for the first time
FirstSeen(wkt) ==
  {i \in DOMAIN wkt : wkt[i] # NoneWkt /\ \A j \in 1..(i - 1) : wkt[j] # wkt[i]}

RECURSIVE InOrder(_, _)
InOrder(wkt, rows) ==
  IF rows = {} THEN <<>>
  ELSE LET i == CHOOSE r \in rows : \A q \in rows : r <= q
       IN  <<wkt[i]>> \o InOrder(wkt, rows \ {i})

RECURSIVE InReverse(_, _)
InReverse(wkt, rows) ==
  IF rows = {} THEN <<>>
  ELSE LET i == CHOOSE r \in rows : \A q \in rows : r >= q
       IN  <<wkt[i]>> \o InReverse(wkt, rows \ {i})

\* mutant: groupby("wkt", sort=False), the groups in order of appearance
GroupKeysUnsorted(wkt) == InOrder(wkt, FirstSeen(wkt))

\* mutant: the groups are emitted last seen first
GroupKeysReversed(wkt) == InReverse(wkt, FirstSeen(wkt))

\* groupby("wkt"): the group keys in sorted order, NA keys dropped
GroupKeys(wkt) == SortedKeys({wkt[i] : i \in DOMAIN wkt} \ {NoneWkt})

\* first(): the first non-NA entry of a column within a group
First(column, rows, na) ==
  LET valid == {i \in rows : column[i] # na}
  IN  IF valid = {} THEN na
      ELSE column[CHOOSE i \in valid : \A j \in valid : i <= j]

Deduplicate(gdf) ==
  LET wkt == [i \in DOMAIN gdf.geometry |-> Wkt(gdf.geometry[i])]
      keys == GroupKeys(wkt)
      rows(k) == {i \in DOMAIN wkt : wkt[i] = k}
  IN  [columns |->
         [column \in (DOMAIN gdf.columns) \ {"wkt"} |->
            [g \in DOMAIN keys |-> First(gdf.columns[column], rows(keys[g]), None)]],
       geometry |->
         [g \in DOMAIN keys |-> First(gdf.geometry, rows(keys[g]), NoneGeometry)]]

(***************************************************************************)
(* download_places_of_worship                                              *)
(***************************************************************************)
name == AreaNames[area]

\* mutant: the exception is wrapped without anything being printed
ExceptSilent(exception) ==
  /\ printed' = printed
  /\ err' = [type |-> "RuntimeError", cause |-> exception]
  /\ pc' = "Failed"

\* except Exception as exception: print(exception, response.text);
\* raise RuntimeError from exception
Except(exception) ==
  /\ printed' = Append(printed, [exception |-> exception, text |-> response.text])
  /\ err' = [type |-> "RuntimeError", cause |-> exception]
  /\ pc' = "Failed"

\* the loop takes the next area and issues requests.post
Post ==
  /\ pc = "Idle"
  /\ area <= Len(AreaNames)
  /\ pc' = "Querying"
  /\ calls' = Append(calls, name)
  /\ UNCHANGED <<area, response, data, cache, dataset, printed, diagnostics, err>>

\* requests.post raises: the exception leaves the function as it is
PostRaises ==
  /\ pc = "Querying"
  /\ pc' = "Failed"
  /\ err' = [type |-> "ConnectionError", cause |-> "None"]
  /\ UNCHANGED <<area, calls, response, data, cache, dataset, printed, diagnostics>>

Receive(bodies) ==
  /\ pc = "Querying"
  /\ \E text \in bodies : response' = [text |-> text]
  /\ pc' = "Parsing"
  /\ UNCHANGED <<area, calls, data, cache, dataset, printed, diagnostics, err>>

ReceiveRun == Receive(RunBodies)

\* response.json() raises
JsonFails ==
  /\ pc = "Parsing"
  /\ "json" \notin DOMAIN response.text
  /\ Except("JSONDecodeError")
  /\ UNCHANGED <<area, calls, response, data, cache, dataset, diagnostics>>

\* open(f"{name}.json", "w") raises
CacheFails ==
  /\ pc = "Parsing"
  /\ "json" \in DOMAIN response.text
  /\ Except("OSError")
  /\ UNCHANGED <<area, calls, response, data, cache, dataset, diagnostics>>

\* mutant: the conversion runs before the cache copy is written
ConvertFailsBeforeCache ==
  /\ pc = "Parsing"
  /\ "json" \in DOMAIN response.text
  /\ ~Convertible(response.text.json)
  /\ Except("KeyError")
  /\ UNCHANGED <<area, calls, response, data, cache, dataset, diagnostics>>

\* the cache copy is written, then the conversion raises KeyError
ConvertFails ==
  /\ pc = "Parsing"
  /\ "json" \in DOMAIN response.text
  /\ ~Convertible(response.text.json)
  /\ cache' = (name :> response.text.json) @@ cache
  /\ Except("KeyError")
  /\ UNCHANGED <<area, calls, response, data, dataset, diagnostics>>

Parse ==
  /\ pc = "Parsing"
  /\ "json" \in DOMAIN response.text
  /\ Convertible(response.text.json)
  /\ cache' = (name :> response.text.json) @@ cache
  /\ data' = overpass_json_points_to_geopandas(response.text.json)
  /\ diagnostics' = diagnostics \o PrintedElements(response.text.json.elements)
  /\ pc' = "Deduplicating"
  /\ UNCHANGED <<area, calls, response, dataset, printed, err>>

Dedup ==
  /\ pc = "Deduplicating"
  /\ data' = Deduplicate(data)
  /\ pc' = "Writing"
  /\ UNCHANGED <<area, calls, response, cache, dataset, printed, diagnostics, err>>

\* mutant: writing a layer replaces the whole file
WriteTruncating ==
  /\ pc = "Writing"
  /\ dataset' = (name :> data)
  /\ response' = NoResponse
  /\ area' = area + 1
  /\ pc' = IF area = Len(AreaNames) THEN "Done" ELSE "Idle"
  /\ UNCHANGED <<calls, data, cache, printed, diagnostics, err>>

\* data.to_file(OUTPUT_FILE, layer=name), then the response is closed and
\* the loop goes on
Write ==
  /\ pc = "Writing"
  /\ dataset' = (name :> data) @@ dataset
  /\ response' = NoResponse
  /\ area' = area + 1
  /\ pc' = IF area = Len(AreaNames) THEN "Done" ELSE "Idle"
  /\ UNCHANGED <<calls, data, cache, printed, diagnostics, err>>

\* mutant: a failed write is swallowed and the loop goes on
WriteFailsContinue ==
  /\ pc = "Writing"
  /\ response' = NoResponse
  /\ area' = area + 1
  /\ pc' = IF area = Len(AreaNames) THEN "Done" ELSE "Idle"
  /\ UNCHANGED <<calls, data, cache, dataset, printed, diagnostics, err>>

\* data.to_file raises
WriteFails ==
  /\ pc = "Writing"
  /\ Except("DriverError")
  /\ UNCHANGED <<area, calls, response, data, cache, dataset, diagnostics>>

Init ==
  /\ pc = "Idle"
  /\ area = 1
  /\ calls = <<>>
  /\ response = NoResponse
  /\ data = NoData
  /\ cache = <<>>
  /\ dataset = <<>>
  /\ printed = <<>>
  /\ diagnostics = <<>>
  /\ err = NoError

Next ==
  \/ Post
  \/ PostRaises
  \/ ReceiveRun
  \/ JsonFails
  \/ CacheFails
  \/ ConvertFails
  \/ Parse
  \/ Dedup
  \/ Write
  \/ WriteFails

Spec == Init /\ [][Next]_vars

\* The processing of one response: the first area's response has arrived.
InitFn ==
  /\ pc = "Parsing"
  /\ area = 1
  /\ calls = <<"Paris">>
  /\ response \in {[text |-> text] : text \in Bodies}
  /\ data = NoData
  /\ cache = <<>>
  /\ dataset = <<>>
  /\ printed = <<>>
  /\ diagnostics = <<>>
  /\ err = NoError

NextFn ==
  \/ JsonFails
  \/ CacheFails
  \/ ConvertFails
  \/ Parse
  \/ Dedup
  \/ Write
  \/ WriteFails

SpecFn == InitFn /\ [][NextFn]_vars

(***************************************************************************)
(* Properties.                                                             *)
(***************************************************************************)
HasDirect(e) == {"lon", "lat"} \subseteq DOMAIN e
HasCenter(e) == "center" \in DOMAIN e /\ {"lon", "lat"} \subseteq DOMAIN e.center

\* the elements of the response being processed
Received == response.text.json.elements

\* the coordinates the specification assigns to an element
Expected(e) ==
  IF HasDirect(e) THEN <<e.lon, e.lat>>
  ELSE IF HasCenter(e) THEN <<e.center.lon, e.center.lat>>
  ELSE <<>>

\* the layers written so far, each with the cached response it came from
Layers == DOMAIN dataset
Input(n) == cache[n].elements
Rows(gdf) == DOMAIN gdf.geometry

\* C1: the geometry of every feature is the element's direct (lon, lat) when
\* it has them (also when it has a center as well), else its center's
\* (lon, lat), else absent; extraction never makes the conversion fail.
C1_ExtractionPriority ==
  /\ pc = "Deduplicating" =>
       /\ Len(data.geometry) = Len(Received)
       /\ \A i \in DOMAIN Received :
            /\ HasDirect(Received[i]) =>
                 data.geometry[i] = <<Received[i].lon, Received[i].lat>>
            /\ ~HasDirect(Received[i]) /\ HasCenter(Received[i]) =>
                 data.geometry[i] = <<Received[i].center.lon, Received[i].center.lat>>
            /\ ~HasDirect(Received[i]) /\ ~HasCenter(Received[i]) =>
                 data.geometry[i] = NoneGeometry
  /\ (pc = "Parsing" /\ "json" \in DOMAIN response.text
        /\ Convertible(response.text.json)) => ENABLED Parse

C1_Witness ==
  /\ pc = "Deduplicating"
  /\ \E i, j \in DOMAIN Received :
       /\ HasDirect(Received[i]) /\ HasCenter(Received[i])
       /\ ~HasDirect(Received[j]) /\ HasCenter(Received[j])

\* C2: the frame has one column per tag key of the response (their union),
\* one row per element in the original order, and each cell holds the
\* element's own tag value, or None when the element lacks the tag.
C2_UnifiedSchema ==
  pc = "Deduplicating" =>
    LET keys == UNION {DOMAIN Received[i].tags : i \in DOMAIN Received}
    IN  /\ Len(data.geometry) = Len(Received)
        /\ DOMAIN data.columns = keys
        /\ \A k \in keys : \A i \in DOMAIN Received :
             data.columns[k][i] =
               IF k \in DOMAIN Received[i].tags THEN Received[i].tags[k] ELSE None

\* C3: a written layer has exactly one feature per distinct geometry text of
\* its input: equal coordinates collapse, different coordinates stay apart,
\* there are no more rows than elements, and the rows ascend by WKT text.
C3_OnePerGeometryText ==
  \A n \in Layers :
    LET out == dataset[n]
        present == {Expected(Input(n)[i]) : i \in DOMAIN Input(n)} \ {<<>>}
    IN  /\ {out.geometry[g] : g \in Rows(out)} = present
        /\ Len(out.geometry) = Cardinality(present)
        /\ Len(out.geometry) <= Len(Input(n))
        /\ \A k \in DOMAIN out.columns : Len(out.columns[k]) = Len(out.geometry)
        /\ \A g, h \in Rows(out) :
             g < h => LexLess(Wkt(out.geometry[g]), Wkt(out.geometry[h]))

C3_Witness ==
  \E n \in Layers :
    /\ Len(Input(n)) = 2
    /\ Expected(Input(n)[1]) = Expected(Input(n)[2])
    /\ Len(dataset[n].geometry) = 1

C5_AbsentGeometryKept ==
  \A n \in Layers :
    (\E i \in DOMAIN Input(n) : Expected(Input(n)[i]) = <<>>) =>
       Cardinality({g \in Rows(dataset[n]) : dataset[n].geometry[g] = NoneGeometry}) = 1

\* C6: deduplicating a deduplicated collection changes nothing: same rows,
\* same order.
C6_DedupIdempotent ==
  /\ pc = "Writing" => Deduplicate(data) = data
  /\ \A n \in Layers : Deduplicate(dataset[n]) = dataset[n]

C6_Witness ==
  /\ pc = "Writing"
  /\ Len(data.geometry) = 2
  /\ data.geometry[1] = Expected(Received[2])
  /\ data.geometry[2] = Expected(Received[1])

\* C7: a written layer is never removed or changed later in the run; when
\* the call for the second area fails or its body is no well-formed JSON,
\* the run has failed with exactly the first area's layer in the dataset.
C7_NoRollback ==
  /\ [][\A n \in Layers : n \in DOMAIN dataset' /\ dataset'[n] = dataset[n]]_vars
  /\ []((pc = "Failed" /\ area = 2
           /\ (err.type = "ConnectionError" \/ err.cause \in {"JSONDecodeError", "KeyError"}))
          => Layers = {"Paris"})

C7_Witness ==
  /\ pc = "Failed"
  /\ area = 2
  /\ err.cause = "JSONDecodeError"
  /\ Layers = {"Paris"}

\* C8: the calls are issued in the order Paris, UniteUrbaine, one per area;
\* the second is issued only after the first area's layer was written, and
\* never after a failure.
C8_SequentialAreas ==
  /\ Len(calls) <= Len(AreaNames)
  /\ calls = SubSeq(AreaNames, 1, Len(calls))
  /\ Len(calls) = (IF pc \in {"Idle", "Done"} THEN area - 1 ELSE area)
  /\ Len(calls) = 2 => "Paris" \in Layers /\ "Paris" \in DOMAIN cache
  /\ (pc = "Failed" /\ area = 1) => Len(calls) = 1 /\ ~ENABLED Next

C8_Witness ==
  /\ calls = <<"Paris", "UniteUrbaine">>
  /\ pc = "Parsing"
  /\ Len(dataset["Paris"].geometry) = 1

\* the body of the response being processed is no JSON, or JSON of another
\* structure
Open == "text" \in DOMAIN response
NotJson == Open /\ "json" \notin DOMAIN response.text
NotExpected == Open /\ "json" \in DOMAIN response.text /\ ~Convertible(response.text.json)
Emitted ==
  /\ printed # <<>>
  /\ printed[Len(printed)].text = response.text

\* C9 as stated: a body that is no JSON, or JSON of another structure, leaves
\* no cache file for the area, is emitted, and fails the run; cache files
\* exist only for well-formed responses.
C9_NoCacheUnlessWellFormed ==
  /\ (NotJson \/ NotExpected) => pc \in {"Parsing", "Failed"}
  /\ (pc = "Failed" /\ (NotJson \/ NotExpected)) =>
        /\ name \notin DOMAIN cache
        /\ Emitted
  /\ \A n \in DOMAIN cache : Convertible(cache[n])

\* C9 amended: a body that is no JSON leaves no cache file; for JSON of
\* another structure the cache copy is written first, so when the run fails
\* on the missing structure the file holds the decoded body. Either way the
\* body is emitted and the run fails. A cache file exists only for an area
\* whose response was decodable.
C9_CacheOnlyWhenDecodable ==
  /\ (NotJson \/ NotExpected) => pc \in {"Parsing", "Failed"}
  /\ (pc = "Failed" /\ (NotJson \/ NotExpected)) => Emitted
  /\ (pc = "Failed" /\ NotJson) =>
        /\ err.cause = "JSONDecodeError"
        /\ name \notin DOMAIN cache
  /\ (pc = "Failed" /\ NotExpected /\ err.cause = "KeyError") =>
        /\ name \in DOMAIN cache
        /\ cache[name] = response.text.json
  /\ (pc = "Failed" /\ NotExpected) => err.cause \in {"KeyError", "OSError"}
  /\ \A n \in DOMAIN cache :
        /\ n \in Layers \/ (area <= Len(AreaNames) /\ n = name)
        /\ (n \notin Layers /\ Open) =>
              "json" \in DOMAIN response.text /\ cache[n] = response.text.json

C9_Witness ==
  /\ pc = "Failed"
  /\ NotExpected
  /\ name \in DOMAIN cache
  /\ cache[name] = Malformed.json

\* the call for the current area raised, or its body cannot be decoded
CallRaised == pc = "Failed" /\ ~Open
BodyNotDecoded == pc = "Failed" /\ NotJson
NotRetried ==
  /\ Len(calls) = area
  /\ \A i, j \in DOMAIN calls : calls[i] = calls[j] => i = j

\* C10 as stated: every transport error, the call raising as well as a body
\* that cannot be decoded, ends the run without a retry with a RuntimeError
\* that carries the cause, after the raw response text was emitted.
C10_TransportErrorsWrapped ==
  (CallRaised \/ BodyNotDecoded) =>
     /\ NotRetried
     /\ err.type = "RuntimeError"
     /\ err.cause # "None"
     /\ printed # <<>>

\* C10 amended: a body that cannot be decoded ends the run, without a retry,
\* with a RuntimeError carrying the JSONDecodeError after the raw text was
\* emitted; a call that raises ends the run, without a retry, with the
\* call's own exception, unwrapped and with nothing emitted.
C10_TransportErrorOutcomes ==
  /\ BodyNotDecoded =>
        /\ NotRetried
        /\ err = [type |-> "RuntimeError", cause |-> "JSONDecodeError"]
        /\ printed = <<[exception |-> "JSONDecodeError", text |-> response.text]>>
  /\ CallRaised =>
        /\ NotRetried
        /\ err = [type |-> "ConnectionError", cause |-> "None"]
        /\ printed = <<>>
  /\ pc = "Failed" => ~ENABLED Next

C10_Witness ==
  /\ CallRaised
  /\ area = 2
  /\ Layers = {"Paris"}

====
